---- MODULE Spec2Model ----
(***************************************************************************)
(* Model of src/app.py: a Flask endpoint that reads an essay from a Notion *)
(* page, asks a Groq chat model to correct it, splits the reply into three *)
(* sections, strips bracketed labels and writes the sections to a Notion   *)
(* database row.                                                           *)
(*                                                                         *)
(* Text is modelled as a sequence of one-character strings.  Python's None *)
(* is modelled by the record None; a string value s by Some(s).            *)
(*                                                                         *)
(* Outbound calls (requests.get, the Groq client, requests.patch) are      *)
(* modelled as returning a response chosen nondeterministically; transport *)
(* exceptions raised inside those libraries are outside src/app.py and are *)
(* not modelled.  Every rich-text entry of a paragraph is a text entry (it *)
(* exposes text.content), as the code in get_page_content assumes.         *)
(***************************************************************************)
EXTENDS Integers, Sequences, FiniteSets, TLC

VARIABLES
    pc,          \* per invocation: position of trigger_python
    text_page_id,\* per invocation: request.args.get('text_page_id')
    row_page_id, \* per invocation: request.args.get('row_page_id')
    data,        \* per invocation: the JSON body the document read returned
    content,     \* per invocation: result of get_page_content
    reply,       \* per invocation: message content the completion returned
    sections,    \* per invocation: the triple correct_grammar returned
    calls,       \* per invocation: outbound calls made so far, in order
    patchBody,   \* per invocation: the three property values sent by PATCH
    patchStatus, \* per invocation: response.status_code of the PATCH
    status,      \* per invocation: HTTP status trigger_python returned
    rows,        \* document service: row id -> fields stored and their writer
    arg,         \* argument of the pure function under check
    ret,         \* its result
    called       \* which pure function has been applied ("none" before)

vars == <<pc, text_page_id, row_page_id, data, content, reply, sections,
          calls, patchBody, patchStatus, status, rows, arg, ret, called>>

----------------------------------------------------------------------------
(* Bounds of the model *)

MaxCleanLen == 5      \* longest text given to clean_text on its own
MaxReplyLen == 8      \* longest reply given to correct_grammar on its own
MaxBlocks == 4        \* most blocks in a document given to get_page_content
MaxSegs == 4          \* most segments in a reply the handler receives
MaxDocBlocks == 2     \* most blocks in a document the handler reads

----------------------------------------------------------------------------
(* Text *)

NL == "\n"
SP == " "
Empty == <<>>

None == [isNone |-> TRUE, s |-> Empty]
Some(s) == [isNone |-> FALSE, s |-> s]

\* Python truthiness of an optional string: None and "" are falsy.
Falsy(x) == x.isNone \/ x.s = Empty

SeqsUpTo(A, n) == UNION {[1..k -> A] : k \in 0..n}

\* Characters str.strip() removes (those that occur in the model's texts).
IsSpace(c) == c \in {SP, NL}

RECURSIVE LStrip(_)
LStrip(s) ==
    IF s = Empty THEN s
    ELSE IF IsSpace(Head(s)) THEN LStrip(Tail(s)) ELSE s

RECURSIVE RStrip(_)
RStrip(s) ==
    IF s = Empty THEN s
    ELSE IF IsSpace(s[Len(s)]) THEN RStrip(SubSeq(s, 1, Len(s) - 1)) ELSE s

\* str.strip()
Strip(s) == RStrip(LStrip(s))

IsPrefix(p, s) == Len(p) <= Len(s) /\ SubSeq(s, 1, Len(p)) = p

\* str.split(sep): leftmost non-overlapping occurrences of sep cut the text;
\* the result always has at least one segment.
RECURSIVE SplitRec(_, _, _)
SplitRec(rest, cur, sep) ==
    IF rest = Empty THEN <<cur>>
    ELSE IF IsPrefix(sep, rest)
         THEN <<cur>> \o SplitRec(SubSeq(rest, Len(sep) + 1, Len(rest)), Empty, sep)
         ELSE SplitRec(Tail(rest), Append(cur, Head(rest)), sep)

Split(s, sep) == SplitRec(s, Empty, sep)

\* sep.join(list)
RECURSIVE Join(_, _)
Join(list, sep) ==
    IF list = <<>> THEN Empty
    ELSE IF Len(list) = 1 THEN list[1]
    ELSE list[1] \o sep \o Join(Tail(list), sep)

----------------------------------------------------------------------------
(* get_page_content *)

Paragraph(rt) == [type |-> "paragraph", rich_text |-> rt]
Heading == [type |-> "heading_1", rich_text |-> <<>>]

NoResults == [hasResults |-> FALSE, results |-> <<>>]
Results(blocks) == [hasResults |-> TRUE, results |-> blocks]

\* The loop of get_page_content: the first rich-text entry's text.content of
\* every paragraph block whose rich_text list is not empty, in block order.
\* Mutant: an empty paragraph contributes an empty line instead of being skipped.
RECURSIVE CollectContentKeepEmpty(_)
CollectContentKeepEmpty(blocks) ==
    IF blocks = <<>> THEN <<>>
    ELSE LET block == Head(blocks)
             rest == CollectContentKeepEmpty(Tail(blocks))
         IN IF block.type = "paragraph"
            THEN IF block.rich_text = <<>>
                 THEN <<Empty>> \o rest
                 ELSE <<block.rich_text[1]>> \o rest
            ELSE rest

RECURSIVE CollectContent(_)
CollectContent(blocks) ==
    IF blocks = <<>> THEN <<>>
    ELSE LET block == Head(blocks)
             rest == CollectContent(Tail(blocks))
         IN IF block.type = "paragraph"
            THEN IF block.rich_text = <<>>
                 THEN rest
                 ELSE <<block.rich_text[1]>> \o rest
            ELSE rest

get_page_content(d) ==
    IF ~d.hasResults THEN None
    ELSE Some(Join(CollectContent(d.results), <<NL>>))

----------------------------------------------------------------------------
(* correct_grammar *)

\* The fixed text returned when the reply has fewer than three segments
\* (a text with no brackets and no surrounding whitespace).
Diagnostic == <<"E", "r", "r", ":", SP, "G", "r", "o", "q">>

\* Mutant: a reply of two segments is passed on, padded with an empty third.
correct_grammar_partial(r) ==
    LET gpt_response == Split(Strip(r), <<NL, NL>>)
    IN IF Len(gpt_response) < 2
       THEN <<Diagnostic, Empty, Empty>>
       ELSE IF Len(gpt_response) = 2
            THEN <<gpt_response[1], gpt_response[2], Empty>>
            ELSE <<gpt_response[1], gpt_response[2], gpt_response[3]>>

\* Mutant: the reply is split without being stripped first.
correct_grammar_unstripped(r) ==
    LET gpt_response == Split(r, <<NL, NL>>)
    IN IF Len(gpt_response) < 3
       THEN <<Diagnostic, Empty, Empty>>
       ELSE <<gpt_response[1], gpt_response[2], gpt_response[3]>>

correct_grammar(r) ==
    LET gpt_response == Split(Strip(r), <<NL, NL>>)
    IN IF Len(gpt_response) < 3
       THEN <<Diagnostic, Empty, Empty>>
       ELSE <<gpt_response[1], gpt_response[2], gpt_response[3]>>

----------------------------------------------------------------------------
(* clean_text *)

\* Where the lazy pattern \[.*?\] that starts at s[1] = "[" ends: the index of
\* the first "]" after it, or 0 when a line break or the end of the text comes
\* first ("." does not match a line break).
RECURSIVE CloseFrom(_, _)
CloseFrom(s, j) ==
    IF j > Len(s) THEN 0
    ELSE IF s[j] = "]" THEN j
    ELSE IF s[j] = NL THEN 0
    ELSE CloseFrom(s, j + 1)

\* Mutant: the pattern \[.+?\], which needs a character between the brackets.
RECURSIVE SubBracketsNonEmpty(_)
SubBracketsNonEmpty(s) ==
    IF s = Empty THEN Empty
    ELSE IF Head(s) = "[" /\ Len(s) >= 2 /\ s[2] # NL /\ CloseFrom(s, 3) # 0
         THEN SubBracketsNonEmpty(SubSeq(s, CloseFrom(s, 3) + 1, Len(s)))
         ELSE <<Head(s)>> \o SubBracketsNonEmpty(Tail(s))

\* re.sub(r"\[.*?\]", "", text): scanning left to right, every match is dropped.
RECURSIVE SubBrackets(_)
SubBrackets(s) ==
    IF s = Empty THEN Empty
    ELSE IF Head(s) = "[" /\ CloseFrom(s, 2) # 0
         THEN SubBrackets(SubSeq(s, CloseFrom(s, 2) + 1, Len(s)))
         ELSE <<Head(s)>> \o SubBrackets(Tail(s))

\* Mutant: re.sub(..., count=1), only the first match is dropped.
RECURSIVE SubFirstBracket(_)
SubFirstBracket(s) ==
    IF s = Empty THEN Empty
    ELSE IF Head(s) = "[" /\ CloseFrom(s, 2) # 0
         THEN SubSeq(s, CloseFrom(s, 2) + 1, Len(s))
         ELSE <<Head(s)>> \o SubFirstBracket(Tail(s))

clean_text_first_only(text) == Strip(SubFirstBracket(text))

clean_text(text) == Strip(SubBrackets(text))

----------------------------------------------------------------------------
(* update_notion_page and trigger_python *)

\* The three property values update_notion_page puts in the PATCH body:
\* each section cleaned ("GPT 修正後短文", "錯誤分析 ", "GPT 高分建議").
\* Mutant: the sections are sent as they are, without clean_text.
notion_data_uncleaned(secs) == <<secs[1], secs[2], secs[3]>>

notion_data(secs) ==
    <<clean_text(secs[1]), clean_text(secs[2]), clean_text(secs[3])>>

\* Mutant: the request is refused only when both identifiers are missing.
MissingBothIds(t, r) == Falsy(t) /\ Falsy(r)

\* trigger_python: "if not text_page_id or not row_page_id".
MissingId(t, r) == Falsy(t) \/ Falsy(r)

\* Mutant: "if content is None".
ContentIsNone(c) == c.isNone

\* trigger_python: "if not content".
NoContent(c) == Falsy(c)

\* Mutant: a failed PATCH is surfaced as a server error.
StatusAfterCheckedWrite(patch_status) == IF patch_status = 200 THEN 200 ELSE 500

\* trigger_python after update_notion_page returned: the status of the PATCH
\* is only printed; the handler returns the success page with 200.
StatusAfterWrite(patch_status) == 200

Invocations == {1, 2}

NoSections == <<Empty, Empty, Empty>>

\* The rows of the database the model follows.
RowKeys == {<<"r">>, <<"s">>}

HandlerIdle ==
    /\ pc = [i \in Invocations |-> "idle"]
    /\ text_page_id = [i \in Invocations |-> None]
    /\ row_page_id = [i \in Invocations |-> None]
    /\ data = [i \in Invocations |-> NoResults]
    /\ content = [i \in Invocations |-> None]
    /\ reply = [i \in Invocations |-> Empty]
    /\ sections = [i \in Invocations |-> NoSections]
    /\ calls = [i \in Invocations |-> <<>>]
    /\ patchBody = [i \in Invocations |-> NoSections]
    /\ patchStatus = [i \in Invocations |-> 0]
    /\ status = [i \in Invocations |-> 0]
    /\ rows = [k \in RowKeys |-> [fields |-> NoSections, writer |-> 0]]

NoFunction ==
    /\ arg = Empty
    /\ ret = Empty
    /\ called = "none"

\* A request arrives with its two query parameters and is validated.
Request(i, TextIds, RowIds) ==
    /\ pc[i] = "idle"
    /\ \E t \in TextIds, r \in RowIds :
          /\ text_page_id' = [text_page_id EXCEPT ![i] = t]
          /\ row_page_id' = [row_page_id EXCEPT ![i] = r]
          /\ IF MissingId(t, r)
             THEN /\ pc' = [pc EXCEPT ![i] = "done"]
                  /\ status' = [status EXCEPT ![i] = 400]
             ELSE /\ pc' = [pc EXCEPT ![i] = "validated"]
                  /\ UNCHANGED status
    /\ UNCHANGED <<data, content, reply, sections, calls, patchBody,
                   patchStatus, rows, arg, ret, called>>

\* content = get_page_content(text_page_id), then the check of content.
ReadPage(i, Docs) ==
    /\ pc[i] = "validated"
    /\ \E d \in Docs :
          /\ data' = [data EXCEPT ![i] = d]
          /\ calls' = [calls EXCEPT ![i] = Append(@, "read")]
          /\ content' = [content EXCEPT ![i] = get_page_content(d)]
          /\ IF NoContent(get_page_content(d))
             THEN /\ pc' = [pc EXCEPT ![i] = "done"]
                  /\ status' = [status EXCEPT ![i] = 400]
             ELSE /\ pc' = [pc EXCEPT ![i] = "have_content"]
                  /\ UNCHANGED status
    /\ UNCHANGED <<text_page_id, row_page_id, reply, sections, patchBody,
                   patchStatus, rows, arg, ret, called>>

\* corrected_text, error_analysis, high_score_tips = correct_grammar(content)
Complete(i, Replies) ==
    /\ pc[i] = "have_content"
    /\ \E r \in Replies :
          /\ reply' = [reply EXCEPT ![i] = r]
          /\ calls' = [calls EXCEPT ![i] = Append(@, "completion")]
          /\ sections' = [sections EXCEPT ![i] = correct_grammar(r)]
    /\ pc' = [pc EXCEPT ![i] = "have_sections"]
    /\ UNCHANGED <<text_page_id, row_page_id, data, content, patchBody,
                   patchStatus, status, rows, arg, ret, called>>

\* update_notion_page(row_page_id, ...) and the handler's return.  One PATCH
\* carries the three properties; the document service stores them when it
\* answers 200 and leaves the row as it was otherwise.
Write(i, Statuses) ==
    /\ pc[i] = "have_sections"
    /\ patchBody' = [patchBody EXCEPT ![i] = notion_data(sections[i])]
    /\ calls' = [calls EXCEPT ![i] = Append(@, "write")]
    /\ \E st \in Statuses :
          /\ patchStatus' = [patchStatus EXCEPT ![i] = st]
          /\ rows' = IF st = 200 /\ row_page_id[i].s \in RowKeys
                     THEN [rows EXCEPT ![row_page_id[i].s] =
                              [fields |-> notion_data(sections[i]), writer |-> i]]
                     ELSE rows
          /\ status' = [status EXCEPT ![i] = StatusAfterWrite(st)]
    /\ pc' = [pc EXCEPT ![i] = "done"]
    /\ UNCHANGED <<text_page_id, row_page_id, data, content, reply, sections,
                   arg, ret, called>>

----------------------------------------------------------------------------
(* Inputs of the handler *)

PageIdInputs == {None, Some(Empty), Some(<<"p">>)}
RowIdInputs == {None, Some(Empty), Some(<<"r">>)}

HandlerBlocks ==
    {Heading, Paragraph(<<>>), Paragraph(<< <<"a">> >>), Paragraph(<< Empty >>)}
HandlerDocs ==
    {NoResults} \cup {Results(b) : b \in SeqsUpTo(HandlerBlocks, MaxDocBlocks)}

\* Replies: up to MaxSegs segments joined by blank lines, possibly padded.
SegSet == {Empty, <<"a">>, <<"[", "x", "]", SP, "b">>}
Pads == {Empty, <<NL, NL>>, <<SP, NL>>}
HandlerReplies ==
    {lead \o Join(segs, <<NL, NL>>) \o trail :
        segs \in SeqsUpTo(SegSet, MaxSegs), lead \in Pads, trail \in Pads}

PatchStatuses == {200, 400}

Init == HandlerIdle /\ NoFunction

Next ==
    \E i \in {1} :
        \/ Request(i, PageIdInputs, RowIdInputs)
        \/ ReadPage(i, HandlerDocs)
        \/ Complete(i, HandlerReplies)
        \/ Write(i, PatchStatuses)

\* One request handled from arrival to response.
Spec == Init /\ [][Next]_vars

----------------------------------------------------------------------------
(* Two overlapping invocations.  The development server started by app.run *)
(* serves requests in threads; the handlers share no variable of the       *)
(* program, only the rows of the document service.                         *)

RaceTextIds == {Some(<<"p">>)}
RaceRowIds == {Some(<<"r">>), Some(<<"s">>)}
RaceDocs == {Results(<<Paragraph(<< <<"a">> >>)>>)}
RaceReplies ==
    {Join(<<seg, seg, seg>>, <<NL, NL>>) : seg \in SegSet \ {Empty}}

NextRace ==
    \E i \in Invocations :
        \/ Request(i, RaceTextIds, RaceRowIds)
        \/ ReadPage(i, RaceDocs)
        \/ Complete(i, RaceReplies)
        \/ Write(i, PatchStatuses)

SpecRace == Init /\ [][NextRace]_vars

----------------------------------------------------------------------------
(* The pure functions on their own *)

CleanAlphabet == {"a", "[", "]", NL, SP}
CleanInputs == SeqsUpTo(CleanAlphabet, MaxCleanLen)

InitClean == HandlerIdle /\ arg \in CleanInputs /\ ret = Empty /\ called = "none"

ApplyClean ==
    /\ called = "none"
    /\ ret' = clean_text(arg)
    /\ called' = "clean_text"
    /\ UNCHANGED <<arg, pc, text_page_id, row_page_id, data, content, reply,
                   sections, calls, patchBody, patchStatus, status, rows>>

SpecClean == InitClean /\ [][ApplyClean]_vars

ReplyAlphabet == {"a", NL, SP}
ReplyInputs == SeqsUpTo(ReplyAlphabet, MaxReplyLen)

InitGrammar == HandlerIdle /\ arg \in ReplyInputs /\ ret = NoSections /\ called = "none"

ApplyGrammar ==
    /\ called = "none"
    /\ ret' = correct_grammar(arg)
    /\ called' = "correct_grammar"
    /\ UNCHANGED <<arg, pc, text_page_id, row_page_id, data, content, reply,
                   sections, calls, patchBody, patchStatus, status, rows>>

SpecGrammar == InitGrammar /\ [][ApplyGrammar]_vars

ReadBlocks ==
    {Heading, Paragraph(<<>>), Paragraph(<< <<"a">> >>), Paragraph(<< <<"b">> >>),
     Paragraph(<< <<"a", NL, "b">> >>), Paragraph(<< <<"a">>, <<"b">> >>),
     Paragraph(<< Empty >>)}
ReadInputs ==
    {NoResults} \cup {Results(b) : b \in SeqsUpTo(ReadBlocks, MaxBlocks)}

InitRead == HandlerIdle /\ arg \in ReadInputs /\ ret = None /\ called = "none"

ApplyRead ==
    /\ called = "none"
    /\ ret' = get_page_content(arg)
    /\ called' = "get_page_content"
    /\ UNCHANGED <<arg, pc, text_page_id, row_page_id, data, content, reply,
                   sections, calls, patchBody, patchStatus, status, rows>>

SpecRead == InitRead /\ [][ApplyRead]_vars

----------------------------------------------------------------------------
(* Claims about the handler, checked under Spec *)

AllCalls == <<"read", "completion", "write">>
BlankLine == <<NL, NL>>

Responded(i) == pc[i] = "done"
Made(i, op) == \E k \in 1..Len(calls[i]) : calls[i][k] = op

\* C1: a request in which text_page_id or row_page_id is missing is answered
\* 400 and no outbound call (read, completion, write) is made for it.
C1_MissingIdRefused ==
    \A i \in Invocations :
        (pc[i] # "idle" /\ (text_page_id[i].isNone \/ row_page_id[i].isNone))
            => /\ Responded(i)
               /\ status[i] = 400
               /\ calls[i] = <<>>

\* Scenario 2: text_page_id given, row_page_id missing, answered 400.
C1_Witness ==
    \E i \in Invocations :
        /\ Responded(i)
        /\ text_page_id[i] = Some(<<"p">>)
        /\ row_page_id[i].isNone
        /\ status[i] = 400

\* A read response from which no paragraph text can be taken: no "results"
\* key, no paragraph block, or only paragraph blocks with an empty rich_text.
NoUsableParagraph(d) ==
    \/ ~d.hasResults
    \/ \A k \in 1..Len(d.results) :
          d.results[k].type = "paragraph" => d.results[k].rich_text = <<>>

\* C2: with both identifiers present, a read response with no "results" key,
\* no paragraph block or only empty paragraphs is answered 400 after exactly
\* one read call, with no completion call and no write call.
C2_EmptyDocumentRefused ==
    \A i \in Invocations :
        (Made(i, "read") /\ NoUsableParagraph(data[i]))
            => /\ Responded(i)
               /\ status[i] = 400
               /\ calls[i] = <<"read">>

\* A document with a heading and an empty paragraph was read and refused.
C2_Witness ==
    \E i \in Invocations :
        /\ Responded(i)
        /\ status[i] = 400
        /\ data[i] = Results(<<Heading, Paragraph(<<>>)>>)
        /\ calls[i] = <<"read">>

\* C3: when the reply splits on blank lines into fewer than 3 segments,
\* correct_grammar returns (diagnostic, "", ""), that triple is what
\* update_notion_page receives and sends, and the handler answers 200.
C3_MalformedReplyDegrades ==
    \A i \in Invocations :
        (Made(i, "completion") /\ Len(Split(reply[i], BlankLine)) < 3)
            => /\ sections[i] = <<Diagnostic, Empty, Empty>>
               /\ pc[i] \in {"have_sections", "done"}
               /\ Responded(i) =>
                     /\ calls[i] = AllCalls
                     /\ patchBody[i] = <<Diagnostic, Empty, Empty>>
                     /\ status[i] = 200

\* Scenario 4: a reply of exactly two non-empty segments was written as the
\* diagnostic triple and answered 200.
C3_Witness ==
    \E i \in Invocations :
        /\ Responded(i)
        /\ reply[i] = <<"a">> \o BlankLine \o <<"[", "x", "]", SP, "b">>
        /\ patchBody[i] = <<Diagnostic, Empty, Empty>>
        /\ status[i] = 200

\* C4: the outbound calls of an invocation are a prefix of <read, completion,
\* write>; the handler answers 200 exactly when all three were made, the
\* write then carrying the three cleaned sections, and 400 otherwise.
C4_CallOrderAndStatus ==
    \A i \in Invocations :
        /\ IsPrefix(calls[i], AllCalls)
        /\ ~Responded(i) => status[i] = 0
        /\ Responded(i) =>
              /\ status[i] \in {200, 400}
              /\ status[i] = 200 <=> calls[i] = AllCalls
              /\ status[i] = 200 =>
                    \A k \in 1..3 : patchBody[i][k] = clean_text(sections[i][k])

\* Scenario 1: two non-empty paragraphs, a reply of three labelled sections
\* separated by blank lines: written once, cleaned, and answered 200.
C4_Witness ==
    \E i \in Invocations :
        /\ Responded(i)
        /\ status[i] = 200
        /\ calls[i] = AllCalls
        /\ data[i] = Results(<<Paragraph(<< <<"a">> >>), Paragraph(<< <<"a">> >>)>>)
        /\ reply[i] = <<"[", "x", "]", SP, "b">> \o BlankLine \o
                      <<"[", "x", "]", SP, "b">> \o BlankLine \o <<"a">>
        /\ patchBody[i] = << <<"b">>, <<"b">>, <<"a">> >>

\* C5: once the document write has been made the response is 200, whatever
\* status the PATCH returned.
C5_WriteStatusIgnored ==
    \A i \in Invocations :
        Made(i, "write") => (Responded(i) /\ status[i] = 200)

\* The PATCH was answered 400 and the handler answered 200; the row is as it was.
C5_Witness ==
    \E i \in Invocations :
        /\ Made(i, "write")
        /\ patchStatus[i] = 400
        /\ status[i] = 200
        /\ rows[row_page_id[i].s].writer = 0

----------------------------------------------------------------------------
(* Claims about correct_grammar, checked under SpecGrammar *)

FirstThree(segs) == <<segs[1], segs[2], segs[3]>>

\* C6 as stated: a reply with at least 3 blank-line-separated segments yields
\* exactly its first 3 segments, verbatim.
C6_Original ==
    (called = "correct_grammar" /\ Len(Split(arg, BlankLine)) >= 3)
        => ret = FirstThree(Split(arg, BlankLine))

\* C6 amended: the reply is stripped of leading and trailing whitespace first;
\* when the stripped reply has at least 3 segments the result is exactly its
\* first 3 segments, in order, and any further segment is dropped.
C6_FirstThreeOfStrippedReply ==
    (called = "correct_grammar" /\ Len(Split(Strip(arg), BlankLine)) >= 3)
        => ret = FirstThree(Split(Strip(arg), BlankLine))

\* A reply of four segments: three are returned, the fourth dropped.
C6_Witness ==
    /\ called = "correct_grammar"
    /\ arg = <<"a">> \o BlankLine \o BlankLine \o BlankLine \o <<"a">>
    /\ Len(Split(Strip(arg), BlankLine)) = 4
    /\ ret = << <<"a">>, Empty, Empty >>

----------------------------------------------------------------------------
(* Claims about get_page_content, checked under SpecRead *)

IsTextParagraph(b) == b.type = "paragraph" /\ b.rich_text # <<>>
TextParagraphs(d) == SelectSeq(d.results, IsTextParagraph)
ParagraphTexts(d) ==
    [k \in 1..Len(TextParagraphs(d)) |-> TextParagraphs(d)[k].rich_text[1]]
HasLineBreak(t) == \E k \in 1..Len(t) : t[k] = NL

\* C7 as stated: with N >= 1 paragraphs having rich text, the result has
\* exactly N newline-separated segments, one per such paragraph, in order.
C7_Original ==
    (called = "get_page_content" /\ arg.hasResults /\ Len(TextParagraphs(arg)) >= 1)
        => /\ ~ret.isNone
           /\ Split(ret.s, <<NL>>) = ParagraphTexts(arg)

\* C7 amended: the same, for documents in which the text taken from each such
\* paragraph (its first rich-text entry) contains no line break.
C7_OneSegmentPerParagraph ==
    (/\ called = "get_page_content"
     /\ arg.hasResults
     /\ Len(TextParagraphs(arg)) >= 1
     /\ \A k \in 1..Len(TextParagraphs(arg)) : ~HasLineBreak(ParagraphTexts(arg)[k]))
        => /\ ~ret.isNone
           /\ Split(ret.s, <<NL>>) = ParagraphTexts(arg)

\* Two text paragraphs around an empty paragraph, after a heading.
C7_Witness ==
    /\ called = "get_page_content"
    /\ arg = Results(<<Heading, Paragraph(<< <<"b">> >>), Paragraph(<<>>),
                       Paragraph(<< <<"a">> >>)>>)
    /\ ret = Some(<<"b", NL, "a">>)

----------------------------------------------------------------------------
(* Claims about clean_text, checked under SpecClean *)

Trimmed(t) == t = Empty \/ (~IsSpace(t[1]) /\ ~IsSpace(t[Len(t)]))

\* C8 as stated: the output has no "[" followed anywhere later by "]", and no
\* leading or trailing whitespace.
C8_Original ==
    called = "clean_text"
        => /\ \A i, j \in 1..Len(ret) : ~(i < j /\ ret[i] = "[" /\ ret[j] = "]")
           /\ Trimmed(ret)

\* C8 amended: the output has no "[" followed later on the same line by "]"
\* (a "[" and a later "]" are always separated by a line break), and no
\* leading or trailing whitespace.
C8_NoBracketSpanOnOneLine ==
    called = "clean_text"
        => /\ \A i, j \in 1..Len(ret) :
                 (i < j /\ ret[i] = "[" /\ ret[j] = "]")
                     => \E k \in (i + 1)..(j - 1) : ret[k] = NL
           /\ Trimmed(ret)

\* A label was removed and the surrounding whitespace trimmed.
C8_Witness ==
    /\ called = "clean_text"
    /\ arg = <<SP, "[", "a", "]", "a">>
    /\ ret = <<"a">>

HasBracket(t) == \E k \in 1..Len(t) : t[k] \in {"[", "]"}

\* t is x without its leading and trailing whitespace.
IsTrimOf(t, x) ==
    /\ Trimmed(t)
    /\ \E a \in 1..(Len(x) + 1), b \in 0..Len(x) :
          /\ t = SubSeq(x, a, b)
          /\ \A k \in 1..(a - 1) : IsSpace(x[k])
          /\ \A k \in (b + 1)..Len(x) : IsSpace(x[k])

\* C9: clean_text is idempotent, and a text with no brackets is returned with
\* only its leading and trailing whitespace removed.
C9_CleanIdempotent ==
    called = "clean_text"
        => /\ clean_text(ret) = ret
           /\ ~HasBracket(arg) => IsTrimOf(ret, arg)

\* Nested brackets: the lazy match removes "[[a]" and leaves "]".
C9_Witness ==
    /\ called = "clean_text"
    /\ arg = <<"[", "[", "a", "]", "]">>
    /\ ret = <<"]">>

----------------------------------------------------------------------------
(* Overlapping invocations on one row, under SpecRace.  C10 is not settled *)
(* by these: whether the three fields of a row can come from different     *)
(* invocations is decided by how the document service applies two PATCH    *)
(* requests, each of which carries all three fields.                       *)

\* Both invocations are between their read and their write, for the same row.
RaceOverlap ==
    /\ pc[1] = "have_sections"
    /\ pc[2] = "have_sections"
    /\ row_page_id[1] = row_page_id[2]

\* With each PATCH stored as a whole, a row holds the body of one invocation.
RowFromOneWriter ==
    \A k \in RowKeys :
        \/ rows[k] = [fields |-> NoSections, writer |-> 0]
        \/ /\ rows[k].writer \in Invocations
           /\ rows[k].fields = patchBody[rows[k].writer]
           /\ row_page_id[rows[k].writer] = Some(k)

====
